---- MODULE Spec2Model ----
(***************************************************************************)
(* Minimal Intractable System finder                                       *)
(* (watertap/core/util/model_diagnostics/mis.py).                          *)
(*                                                                         *)
(* The state is the caller's model, its clone, the bookkeeping of          *)
(* compute_infeasibility_explanation (value caches, fixed_slacks,          *)
(* elastic_filter, deletion_filter, guards, msg) and the position of the   *)
(* routine.  The solver is external: every solver.solve call is one step   *)
(* whose outcome (optimal, non-optimal, raised evaluation failure) and     *)
(* whose loaded values are chosen nondeterministically.                    *)
(***************************************************************************)
EXTENDS Integers, Sequences, FiniteSets, TLC

VARIABLES
    pc,              \* position of the routine
    mods,            \* the two pyomo blocks: "model" and "modified_model"
    _value_cache,    \* original variable -> value at the call
    _modified_model_value_cache,
    _modified_model_var_to_original_model_var,
    phase,           \* 1 bounds only, 2 inequalities, 3 everything
    msg,             \* the parts appended to msg so far (set of tags)
    relaxed,         \* constraints written by _get_results_with_value
    printed,         \* the print() calls made so far (set of tags)
    fixed_slacks,    \* ComponentSet of slack variables fixed by the loop
    elastic_filter,  \* ComponentSet of constraints, in insertion order
    deletion_filter, \* list
    guards,          \* list
    idx,             \* position of the deletion sweep in elastic_filter
    nl_writer,       \* the class registered as "nl" in WriterFactory
    exc,             \* the exception that left the routine, or "none"
    solverKind,      \* how the external solver behaves on the restricted clone
    oracle,          \* solverKind = "function": active set -> outcome
    hist             \* history of the run (outcomes of solves, counters)

vars == <<pc, mods, _value_cache, _modified_model_value_cache,
          _modified_model_var_to_original_model_var, phase, msg, relaxed,
          printed, fixed_slacks, elastic_filter, deletion_filter, guards,
          idx, nl_writer, exc, solverKind, oracle, hist>>

-----------------------------------------------------------------------------
(* Bounds of the model *)

\* variable values range over 0..MaxVal
MaxVal == 1

\* slack values range over 0..MaxSlack
MaxSlack == 1

\* tolerance=1e-8 of the signature, on the scale of the slack values:
\* a slack value of 0 is within the tolerance, a value above it is not
tolerance == 0

Values == 0 .. MaxVal

SlackValues == 0 .. MaxSlack

\* the three outcomes of solver.solve: the result checks optimal, the result
\* does not check optimal, or the call raises
Outcomes == {"optimal", "nonoptimal", "error"}

\* Python's None for a bound is the empty set, a finite bound b is {b}
None == {}

-----------------------------------------------------------------------------
(* Sequences used as insertion-ordered sets (ComponentSet, ComponentMap) *)

Range(s) == {s[i] : i \in 1 .. Len(s)}

\* ComponentSet.add: appends unless already present
SetAdd(s, x) == IF x \in Range(s) THEN s ELSE Append(s, x)

RECURSIVE SelectSeqBy(_, _)
\* the elements of s that belong to S, in the order of s
SelectSeqBy(s, S) ==
    IF s = <<>> THEN <<>>
    ELSE IF Head(s) \in S THEN <<Head(s)>> \o SelectSeqBy(Tail(s), S)
    ELSE SelectSeqBy(Tail(s), S)

-----------------------------------------------------------------------------
(* Pyomo blocks *)

VarNames == {"x", "y"}

\* declaration order of the variables (component_data_objects order)
VarOrder == <<"x", "y">>

MkVar(lb, ub, domain, fixed, value) ==
    [lb |-> lb, ub |-> ub, domain |-> domain, fixed |-> fixed, value |-> value]

MkCon(lower, upper, equality, active) ==
    [lower |-> lower, upper |-> upper, equality |-> equality, active |-> active]

\* a block without components, before modified_model is assigned
EmptyBlock ==
    [var |-> <<>>, con |-> <<>>, conOrder |-> <<>>, obj |-> <<>>,
     slack |-> <<>>, slackOrder |-> <<>>, blocks |-> {}]

\* lower bound of a domain
DomainLb(domain) == IF domain = "NonNegativeReals" THEN {0} ELSE None

\* v.bounds: the tighter of the declared bound and the domain's bound
VarLb(v) ==
    IF v.lb = None THEN DomainLb(v.domain)
    ELSE IF DomainLb(v.domain) = None THEN v.lb
    ELSE {CHOOSE b \in v.lb \cup DomainLb(v.domain) :
            \A c \in v.lb \cup DomainLb(v.domain) : b >= c}

VarUb(v) == v.ub

ActiveCons(m) == {c \in DOMAIN m.con : m.con[c].active}

ActiveObjs(m) == {o \in DOMAIN m.obj : m.obj[o]}

FreeSlacks(m) == {s \in DOMAIN m.slack : ~m.slack[s].fixed}

FreeVars(m) == {v \in DOMAIN m.var : ~m.var[v].fixed}

\* the structure of a block: everything but the variables' values
Structure(m) ==
    [var |-> [v \in DOMAIN m.var |->
                 [lb |-> m.var[v].lb, ub |-> m.var[v].ub,
                  domain |-> m.var[v].domain, fixed |-> m.var[v].fixed]],
     con |-> m.con, conOrder |-> m.conOrder, obj |-> m.obj,
     slack |-> DOMAIN m.slack, blocks |-> m.blocks]

\* the values of the variables of a block
ValuesOf(m) == [v \in DOMAIN m.var |-> m.var[v].value]

-----------------------------------------------------------------------------
(* The models handed to compute_infeasibility_explanation *)

\* x is free, y is fixed; c1 is an equality, c2 an inequality v <= ub
InputModel(xlb, xub, xdom, xval, c1active, c2active) ==
    [var |-> [v \in VarNames |->
                 IF v = "x" THEN MkVar(xlb, xub, xdom, FALSE, xval)
                 ELSE MkVar({0}, {1}, "NonNegativeReals", TRUE, 0)],
     con |-> [c \in {"c1", "c2"} |->
                 IF c = "c1" THEN MkCon({1}, {1}, TRUE, c1active)
                 ELSE MkCon(None, {1}, FALSE, c2active)],
     conOrder |-> <<"c1", "c2">>,
     obj |-> [o \in {"obj"} |-> TRUE],
     slack |-> <<>>, slackOrder |-> <<>>, blocks |-> {}]

\* the caller's models: x with any bounds and domain beside a deactivated
\* c2, or x with at most an upper bound beside an active c2
InputModels ==
    {InputModel(xlb, xub, xdom, xval, TRUE, FALSE) :
        xlb \in {None, {1}}, xub \in {None, {0}},
        xdom \in {"Reals", "NonNegativeReals"}, xval \in Values}
    \cup {InputModel(None, xub, "Reals", xval, TRUE, TRUE) :
        xub \in {None, {0}}, xval \in Values}

\* the models of the runs with a solver that is a function of the active
\* constraints: the contradictory bounds 1 <= x <= 0 alone, or an upper
\* bound on x beside the inequality c2
FunctionInputModels ==
    {InputModel({1}, {0}, "Reals", xval, FALSE, FALSE) : xval \in Values}
    \cup {InputModel(None, {0}, "Reals", xval, FALSE, TRUE) : xval \in Values}

\* a variable as the bound conversion can meet it: with or without a lower
\* bound, an upper bound, a domain restriction, fixed or free
TransformVars ==
    {MkVar(lb, ub, dom, fixed, 0) :
        lb \in {None, {-1}, {1}}, ub \in {None, {0}},
        dom \in {"Reals", "NonNegativeReals"}, fixed \in BOOLEAN}

\* the models of the runs that stop after the bound conversion: x and y are
\* any two such variables beside the equality c1
TransformInputModels ==
    {[var |-> [v \in VarNames |-> IF v = "x" THEN xv ELSE yv],
      con |-> [c \in {"c1"} |-> MkCon({1}, {1}, TRUE, TRUE)],
      conOrder |-> <<"c1">>,
      obj |-> [o \in {"obj"} |-> TRUE],
      slack |-> <<>>, slackOrder |-> <<>>, blocks |-> {}] :
        xv \in TransformVars, yv \in TransformVars}

-----------------------------------------------------------------------------
(* _VariableBoundsAsConstraints._apply_to *)

LbName(v) == "_variable_bounds.lb_for_" \o v

UbName(v) == "_variable_bounds.ub_for_" \o v

\* the block of line 32 added only when a constraint goes into it
BlocksAfterOnlyWhenUsed(m, new) ==
    IF new = <<>> THEN m.blocks ELSE m.blocks \cup {"_variable_bounds"}

\* lines 31-33: the block of the bound constraints is added whatever the
\* variables are
BlocksAfter(m, new) == m.blocks \cup {"_variable_bounds"}

\* the test of line 36 forgotten
ConvertedAlsoFixed(m) ==
    {v \in DOMAIN m.var :
        ~(VarLb(m.var[v]) = None /\ VarUb(m.var[v]) = None)}

\* the variables whose bounds are converted: not fixed, some finite bound
Converted(m) ==
    {v \in DOMAIN m.var :
        ~m.var[v].fixed /\ ~(VarLb(m.var[v]) = None /\ VarUb(m.var[v]) = None)}

\* the branch of lines 46-49 forgotten
BoundConsOfLowerOnly(m, v) ==
    IF v \notin Converted(m) THEN <<>>
    ELSE IF VarLb(m.var[v]) # None THEN <<LbName(v)>> ELSE <<>>

\* the constraints synthesized for variable v, in the order they are added
BoundConsOf(m, v) ==
    IF v \notin Converted(m) THEN <<>>
    ELSE (IF VarLb(m.var[v]) # None THEN <<LbName(v)>> ELSE <<>>)
         \o (IF VarUb(m.var[v]) # None THEN <<UbName(v)>> ELSE <<>>)

RECURSIVE BoundConsOrder(_, _)
BoundConsOrder(m, vs) ==
    IF vs = <<>> THEN <<>>
    ELSE BoundConsOf(m, Head(vs)) \o BoundConsOrder(m, Tail(vs))

VariableBoundsAsConstraints(m) ==
    LET new == BoundConsOrder(m, SelectSeqBy(VarOrder, DOMAIN m.var))
        owner(c) == CHOOSE v \in Converted(m) : c \in {LbName(v), UbName(v)}
        newcon(c) ==
            IF c = LbName(owner(c))
            THEN MkCon(VarLb(m.var[owner(c)]), None, FALSE, TRUE)
            ELSE MkCon(None, VarUb(m.var[owner(c)]), FALSE, TRUE)
    IN  [m EXCEPT
            !.blocks = BlocksAfter(m, new),
            !.con = [c \in DOMAIN m.con \cup Range(new) |->
                        IF c \in Range(new) THEN newcon(c) ELSE m.con[c]],
            !.conOrder = @ \o new,
            !.var = [v \in DOMAIN m.var |->
                        IF v \in Converted(m)
                        THEN [m.var[v] EXCEPT
                                 !.domain = "Reals", !.lb = None, !.ub = None]
                        ELSE m.var[v]]]

\* the constraints of the _variable_bounds block
VariableBoundsCons(m) ==
    {c \in DOMAIN m.con :
        \E v \in DOMAIN m.var : c \in {LbName(v), UbName(v)}}

-----------------------------------------------------------------------------
(* AddSlackVariables (pyomo) as used at mis.py:126 *)

PlusName(c) == "_slack_plus_" \o c

MinusName(c) == "_slack_minus_" \o c

\* a plus slack for a lower bound, a minus slack for an upper bound
SlacksOf(m, c) ==
    (IF m.con[c].lower # None THEN <<PlusName(c)>> ELSE <<>>)
    \o (IF m.con[c].upper # None THEN <<MinusName(c)>> ELSE <<>>)

RECURSIVE SlackOrderOf(_, _)
SlackOrderOf(m, cs) ==
    IF cs = <<>> THEN <<>>
    ELSE SlacksOf(m, Head(cs)) \o SlackOrderOf(m, Tail(cs))

\* every active constraint is elasticized; the objectives of the block are
\* deactivated and the slack objective takes their place
AddSlackVariables(m) ==
    LET order == SlackOrderOf(m, SelectSeqBy(m.conOrder, ActiveCons(m)))
    IN  [m EXCEPT
            !.blocks = @ \cup {"_core_add_slack_variables"},
            !.slack = [s \in Range(order) |-> [fixed |-> FALSE, value |-> 0]],
            !.slackOrder = order,
            !.obj = [o \in DOMAIN m.obj \cup {"_slack_objective"} |->
                        o = "_slack_objective"]]

\* _get_constraint: the constraint named by the slack's name without its
\* prefix; find_component gives None when there is none
_get_constraint(m, v) ==
    LET found == {c \in DOMAIN m.con : v \in {PlusName(c), MinusName(c)}}
    IN  IF found = {} THEN None ELSE CHOOSE c \in found : TRUE

\* v.fix(0) for every slack in S
FixSlacks(m, S) ==
    [m EXCEPT !.slack = [s \in DOMAIN m.slack |->
        IF s \in S THEN [fixed |-> TRUE, value |-> 0] ELSE m.slack[s]]]

\* v.unfix() for every slack in S
UnfixSlacks(m, S) ==
    [m EXCEPT !.slack = [s \in DOMAIN m.slack |->
        IF s \in S THEN [m.slack[s] EXCEPT !.fixed = FALSE] ELSE m.slack[s]]]

\* the unfix of lines 138-141 applied to every slack
BoundSlacksAll(m) == DOMAIN m.slack

\* the slacks of the constraints of the _variable_bounds block (lines 132-141)
BoundSlacks(m) ==
    {s \in DOMAIN m.slack :
        \E c \in VariableBoundsCons(m) : s \in {PlusName(c), MinusName(c)}}

-----------------------------------------------------------------------------
(* The external solver *)

\* solver.solve loads a value into every variable that is not fixed
SolverLoads(m, vals, svals) ==
    [m EXCEPT
        !.var = [v \in DOMAIN m.var |->
                    IF m.var[v].fixed THEN m.var[v]
                    ELSE [m.var[v] EXCEPT !.value = vals[v]]],
        !.slack = [s \in DOMAIN m.slack |->
                    IF m.slack[s].fixed THEN m.slack[s]
                    ELSE [m.slack[s] EXCEPT !.value = svals[s]]]]

\* the block after a solve with the given outcome: a call that raises loads
\* nothing
AfterSolve(m, outcome, vals, svals) ==
    IF outcome = "error" THEN m ELSE SolverLoads(m, vals, svals)

\* the restricted clone of the deletion filter: no slack is free and no
\* objective is active, so a solve depends on the active constraints only
Restricted(m) == FreeSlacks(m) = {} /\ ActiveObjs(m) = {}

\* the outcomes a solve of block m can have
SolveOutcomes(m) ==
    IF solverKind = "function" /\ Restricted(m)
    THEN {oracle[ActiveCons(m)]}
    ELSE Outcomes

\* pyo.check_optimal_termination
check_optimal_termination(results) == results = "optimal"

\* the solver as a function of the active constraints, chosen when the
\* restricted clone is built; a black-box solver has none
OracleChoices(kind, filter) ==
    IF kind = "function" THEN [SUBSET Range(filter) -> Outcomes] ELSE {<<>>}

-----------------------------------------------------------------------------
(* compute_infeasibility_explanation *)

\* modified_model = model: no clone is made
ModifiedModelAliased == "model"

\* the block every transformation and every diagnostic solve works on
ModifiedModel == "modified_model"

clone == mods[ModifiedModel]

\* for var, val in _modified_model_value_cache.items(): var.set_value(val)
ResetValues(m, cache) ==
    [m EXCEPT !.var = [v \in DOMAIN m.var |->
        IF v \in DOMAIN cache
        THEN [m.var[v] EXCEPT !.value = cache[v]] ELSE m.var[v]]]

InitWith(inputs, kind) ==
    /\ pc = "start"
    /\ \E input \in inputs :
          /\ mods = [k \in {"model", "modified_model"} |->
                        IF k = "model" THEN input ELSE EmptyBlock]
          /\ hist = [input |-> input, first |-> "none", orig |-> "none",
                     confirm |-> "none", writeBacks |-> 0, scans |-> 0,
                     emptyFirstScan |-> FALSE, emptyScan |-> FALSE,
                     deletion |-> FALSE, sweepSolves |-> 0, tested |-> <<>>]
    /\ _value_cache = <<>>
    /\ _modified_model_value_cache = <<>>
    /\ _modified_model_var_to_original_model_var = <<>>
    /\ phase = 0
    /\ msg = {}
    /\ relaxed = {}
    /\ printed = {}
    /\ fixed_slacks = {}
    /\ elastic_filter = <<>>
    /\ deletion_filter = <<>>
    /\ guards = <<>>
    /\ idx = 0
    /\ nl_writer = "default"
    /\ exc = "none"
    /\ solverKind = kind
    /\ oracle = <<>>

Init == InitWith(InputModels, "blackbox")

\* the solver answers a solve of the restricted clone as a function of the
\* set of active constraints
InitFunction == InitWith(FunctionInputModels, "function")

\* lines 81-110: clone the model, cache the values, cross-reference the
\* variables of the clone by name and load the cached values into them
CloneAndCache ==
    /\ pc = "start"
    /\ LET model == mods["model"]
           cache == ValuesOf(model)
       IN  /\ _value_cache' = cache
           /\ _modified_model_var_to_original_model_var' =
                  [v \in DOMAIN model.var |-> v]
           /\ _modified_model_value_cache' = cache
           /\ mods' = [mods EXCEPT
                  ![ModifiedModel] = ResetValues(model, cache)]
    /\ pc' = "bounds"
    /\ UNCHANGED <<phase, msg, relaxed, printed, fixed_slacks, elastic_filter,
                   deletion_filter, guards, idx, nl_writer, exc, solverKind,
                   oracle, hist>>

\* line 124
ApplyVariableBounds ==
    /\ pc = "bounds"
    /\ mods' = [mods EXCEPT ![ModifiedModel] = VariableBoundsAsConstraints(@)]
    /\ pc' = "slacks"
    /\ UNCHANGED <<_value_cache, _modified_model_value_cache,
                   _modified_model_var_to_original_model_var, phase, msg,
                   relaxed, printed, fixed_slacks, elastic_filter,
                   deletion_filter, guards, idx, nl_writer, exc, solverKind,
                   oracle, hist>>

\* lines 126-141: elasticize, fix every slack at 0, unfix the slacks of the
\* bound constraints
Elasticize ==
    /\ pc = "slacks"
    /\ LET m1 == AddSlackVariables(clone)
           m2 == FixSlacks(m1, DOMAIN m1.slack)
       IN  mods' = [mods EXCEPT
               ![ModifiedModel] = UnfixSlacks(m2, BoundSlacks(m2))]
    /\ phase' = 1
    /\ pc' = "solve"
    /\ UNCHANGED <<_value_cache, _modified_model_value_cache,
                   _modified_model_var_to_original_model_var, msg, relaxed,
                   printed, fixed_slacks, elastic_filter, deletion_filter,
                   guards, idx, nl_writer, exc, solverKind, oracle, hist>>

\* where the routine goes when a phase yields nothing more
AfterPhase(p) == IF p < 3 THEN "unfix" ELSE "check"

\* lines 165-168: the line that opens a report of relaxed constraints
LoopHeader(m) == IF m = {} THEN "may_be_infeasible" ELSE "another"

\* lines 193-195, 206-208, 214-218: the solve of a phase; no handler
\* surrounds it, so a raised evaluation failure leaves the routine
PhaseSolve ==
    /\ pc = "solve"
    /\ \E outcome \in SolveOutcomes(clone),
          vals \in [FreeVars(clone) -> Values],
          svals \in [FreeSlacks(clone) -> SlackValues] :
          /\ mods' = [mods EXCEPT
                 ![ModifiedModel] = AfterSolve(@, outcome, vals, svals)]
          /\ hist' = IF phase = 1 THEN [hist EXCEPT !.first = outcome] ELSE hist
          /\ IF outcome = "error"
             THEN pc' = "raised" /\ exc' = "eval_clone" /\ msg' = msg
             ELSE IF check_optimal_termination(outcome)
             THEN pc' = "scan" /\ exc' = exc
                  /\ msg' = msg \cup {LoopHeader(msg)}
             ELSE pc' = AfterPhase(phase) /\ exc' = exc /\ msg' = msg
    /\ UNCHANGED <<_value_cache, _modified_model_value_cache,
                   _modified_model_var_to_original_model_var, phase, relaxed,
                   printed, fixed_slacks, elastic_filter, deletion_filter,
                   guards, idx, nl_writer, solverKind, oracle>>

\* the slack variables the generator finds above the tolerance, in the order
\* of slack_block.component_data_objects
HotSlacks(m) ==
    SelectSeqBy(m.slackOrder,
                {s \in DOMAIN m.slack : m.slack[s].value > tolerance})

RECURSIVE AddConstraints(_, _, _)
\* elastic_filter.add(constr) for the constraint of every slack of hot
AddConstraints(filter, m, hot) ==
    IF hot = <<>> THEN filter
    ELSE AddConstraints(SetAdd(filter, _get_constraint(m, Head(hot))),
                        m, Tail(hot))

\* a fresh filter in every pass of the generator
FilterAfterScanRestart(filter, m, hot) == AddConstraints(<<>>, m, hot)

\* line 179 over one pass of the generator: elastic_filter is the one set of
\* the whole run, each pass adds to it
FilterAfterScan(filter, m, hot) == AddConstraints(filter, m, hot)

\* the slacks the generator fixes at 0: the ones it found above the tolerance
ScanFixes(m) == Range(HotSlacks(m))

\* line 181 forgotten: a pass that adds nothing is followed by a re-solve
ScanExitNeverRaises(grew) == "resolve"

\* lines 180-186: where a pass of the generator leads: it raises when the
\* pass did not enlarge elastic_filter, otherwise the loop solves again
ScanExit(grew) == IF grew THEN "resolve" ELSE "raised"

\* lines 171-185: one pass of _constraint_generator, consumed by
\* _get_results_with_value, then the reset of the clone's values; the
\* generator raises when the pass did not enlarge elastic_filter
Scan ==
    /\ pc = "scan"
    /\ LET hot == HotSlacks(clone)
           filter == FilterAfterScan(elastic_filter, clone, hot)
           fixed == FixSlacks(clone, ScanFixes(clone))
           grew == Len(filter) # Len(elastic_filter)
       IN  /\ elastic_filter' = filter
           /\ fixed_slacks' = fixed_slacks \cup ScanFixes(clone)
           /\ relaxed' = relaxed \cup
                  {_get_constraint(clone, s) : s \in Range(hot)}
           /\ hist' = [hist EXCEPT
                  !.scans = @ + 1,
                  !.emptyFirstScan = @ \/ (hist.scans = 0 /\ phase = 1
                                            /\ hot = <<>>),
                  !.emptyScan = @ \/ hot = <<>>]
           /\ pc' = ScanExit(grew)
           /\ IF pc' = "resolve"
              THEN /\ mods' = [mods EXCEPT ![ModifiedModel] =
                          ResetValues(fixed, _modified_model_value_cache)]
                   /\ exc' = exc
              ELSE /\ mods' = [mods EXCEPT ![ModifiedModel] = fixed]
                   /\ exc' = "feasible"
    /\ UNCHANGED <<_value_cache, _modified_model_value_cache,
                   _modified_model_var_to_original_model_var, phase, msg,
                   printed, deletion_filter, guards, idx, nl_writer,
                   solverKind, oracle>>

\* lines 186-190: the re-solve of the constraint loop; no handler surrounds it
LoopSolve ==
    /\ pc = "resolve"
    /\ \E outcome \in SolveOutcomes(clone),
          vals \in [FreeVars(clone) -> Values],
          svals \in [FreeSlacks(clone) -> SlackValues] :
          /\ mods' = [mods EXCEPT
                 ![ModifiedModel] = AfterSolve(@, outcome, vals, svals)]
          /\ IF outcome = "error"
             THEN pc' = "raised" /\ exc' = "eval_clone" /\ msg' = msg
             ELSE IF check_optimal_termination(outcome)
             THEN pc' = "scan" /\ exc' = exc /\ msg' = msg \cup {"another"}
             ELSE pc' = AfterPhase(phase) /\ exc' = exc /\ msg' = msg
    /\ UNCHANGED <<_value_cache, _modified_model_value_cache,
                   _modified_model_var_to_original_model_var, phase, relaxed,
                   printed, fixed_slacks, elastic_filter, deletion_filter,
                   guards, idx, nl_writer, solverKind, oracle, hist>>

\* the test of line 203 forgotten
InequalityUnfixesAlsoFixed(m, fixed) ==
    {s \in DOMAIN m.slack : ~m.con[_get_constraint(m, s)].equality}

\* the slacks the inequality phase unfixes (lines 198-204)
InequalityUnfixes(m, fixed) ==
    {s \in DOMAIN m.slack :
        ~m.con[_get_constraint(m, s)].equality /\ s \notin fixed}

\* the slacks the full phase unfixes (lines 210-212)
FullUnfixes(m, fixed) == {s \in DOMAIN m.slack : s \notin fixed}

\* lines 198-204
UnfixInequalities ==
    /\ pc = "unfix"
    /\ phase = 1
    /\ mods' = [mods EXCEPT ![ModifiedModel] =
           UnfixSlacks(@, InequalityUnfixes(clone, fixed_slacks))]
    /\ phase' = 2
    /\ pc' = "solve"
    /\ UNCHANGED <<_value_cache, _modified_model_value_cache,
                   _modified_model_var_to_original_model_var, msg, relaxed,
                   printed, fixed_slacks, elastic_filter, deletion_filter,
                   guards, idx, nl_writer, exc, solverKind, oracle, hist>>

\* lines 210-212
UnfixAll ==
    /\ pc = "unfix"
    /\ phase = 2
    /\ mods' = [mods EXCEPT ![ModifiedModel] =
           UnfixSlacks(@, FullUnfixes(clone, fixed_slacks))]
    /\ phase' = 3
    /\ pc' = "solve"
    /\ UNCHANGED <<_value_cache, _modified_model_value_cache,
                   _modified_model_var_to_original_model_var, msg, relaxed,
                   printed, fixed_slacks, elastic_filter, deletion_filter,
                   guards, idx, nl_writer, exc, solverKind, oracle, hist>>

\* lines 220-223: with an empty elastic_filter the values of the clone are
\* loaded into the variables of the original model
CheckFilter ==
    /\ pc = "check"
    /\ IF Len(elastic_filter) = 0
       THEN /\ mods' = [mods EXCEPT !["model"] =
                   [@ EXCEPT !.var = [v \in DOMAIN @ |->
                       IF v \in DOMAIN _modified_model_var_to_original_model_var
                       THEN [@[v] EXCEPT !.value = clone.var[
                               _modified_model_var_to_original_model_var[v]].value]
                       ELSE @[v]]]]
            /\ hist' = [hist EXCEPT !.writeBacks = @ + 1]
            /\ pc' = "solve_model"
       ELSE /\ pc' = "setup"
            /\ UNCHANGED <<mods, hist>>
    /\ UNCHANGED <<_value_cache, _modified_model_value_cache,
                   _modified_model_var_to_original_model_var, phase, msg,
                   relaxed, printed, fixed_slacks, elastic_filter,
                   deletion_filter, guards, idx, nl_writer, exc, solverKind,
                   oracle>>

\* lines 224-230: the solve of the original model; no handler surrounds it
SolveModel ==
    /\ pc = "solve_model"
    /\ \E outcome \in SolveOutcomes(mods["model"]),
          vals \in [FreeVars(mods["model"]) -> Values] :
          /\ mods' = [mods EXCEPT
                 !["model"] = AfterSolve(@, outcome, vals, <<>>)]
          /\ hist' = [hist EXCEPT !.orig = outcome]
          /\ IF outcome = "error"
             THEN pc' = "raised" /\ exc' = "eval_model" /\ printed' = printed
             ELSE IF check_optimal_termination(outcome)
             THEN pc' = "setup" /\ exc' = exc
                  /\ printed' = printed \cup {"feasible_solution_found"}
             ELSE pc' = "setup" /\ exc' = exc
                  /\ printed' = printed \cup {"likely_unstable"}
    /\ UNCHANGED <<_value_cache, _modified_model_value_cache,
                   _modified_model_var_to_original_model_var, phase, msg,
                   relaxed, fixed_slacks, elastic_filter, deletion_filter,
                   guards, idx, nl_writer, solverKind, oracle>>

\* c.deactivate() for every constraint in S
Deactivate(m, S) ==
    [m EXCEPT !.con = [c \in DOMAIN m.con |->
        IF c \in S THEN [m.con[c] EXCEPT !.active = FALSE] ELSE m.con[c]]]

\* c.activate() for every constraint in S
Activate(m, S) ==
    [m EXCEPT !.con = [c \in DOMAIN m.con |->
        IF c \in S THEN [m.con[c] EXCEPT !.active = TRUE] ELSE m.con[c]]]

\* the loop of lines 244-248 forgotten
RestrictCloneKeepsOthers(m, filter) ==
    LET m1 == FixSlacks(m, DOMAIN m.slack)
    IN  [m1 EXCEPT !.obj = [o \in DOMAIN m1.obj |-> FALSE]]

\* lines 235-248: switch the nl writer, fix every slack at 0, deactivate the
\* objectives and every constraint outside elastic_filter
RestrictClone(m, filter) ==
    LET m1 == FixSlacks(m, DOMAIN m.slack)
        m2 == [m1 EXCEPT !.obj = [o \in DOMAIN m1.obj |-> FALSE]]
    IN  Deactivate(m2, DOMAIN m2.con \ Range(filter))

DeletionSetup ==
    /\ pc = "setup"
    /\ nl_writer' = "nl_v1"
    /\ mods' = [mods EXCEPT
           ![ModifiedModel] = RestrictClone(@, elastic_filter)]
    /\ oracle' \in OracleChoices(solverKind, elastic_filter)
    /\ hist' = [hist EXCEPT !.deletion = TRUE]
    /\ pc' = "confirm"
    /\ UNCHANGED <<_value_cache, _modified_model_value_cache,
                   _modified_model_var_to_original_model_var, phase, msg,
                   relaxed, printed, fixed_slacks, elastic_filter,
                   deletion_filter, guards, idx, exc, solverKind>>

\* the else branch of line 257 taken whatever the result
ConfirmBranchAlwaysSweeps(outcome) ==
    IF outcome = "error" THEN "raised" ELSE "sweep"

\* lines 252-257: where the confirm solve leads.  A raised evaluation failure
\* is caught and leaves results = None; check_optimal_termination reads
\* results.solver, which raises AttributeError on None
ConfirmBranch(outcome) ==
    IF outcome = "error" THEN "raised"
    ELSE IF check_optimal_termination(outcome) THEN "finish"
    ELSE "sweep"

\* lines 250-258: the confirm solve
ConfirmSolve ==
    /\ pc = "confirm"
    /\ \E outcome \in SolveOutcomes(clone),
          vals \in [FreeVars(clone) -> Values] :
          /\ mods' = [mods EXCEPT
                 ![ModifiedModel] = AfterSolve(@, outcome, vals, <<>>)]
          /\ hist' = [hist EXCEPT !.confirm = outcome]
          /\ pc' = ConfirmBranch(outcome)
          /\ exc' = IF pc' = "raised" THEN "attribute_error" ELSE exc
          /\ msg' = IF pc' = "finish"
                    THEN msg \cup {"could_not_determine"} ELSE msg
          /\ idx' = IF pc' = "sweep" THEN 1 ELSE idx
    /\ UNCHANGED <<_value_cache, _modified_model_value_cache,
                   _modified_model_var_to_original_model_var, phase, relaxed,
                   printed, fixed_slacks, elastic_filter, deletion_filter,
                   guards, nl_writer, solverKind, oracle>>

\* constr.deactivate() of line 261 forgotten
SweepTestStillActive(m, constr, cache) == ResetValues(m, cache)

\* lines 261-263: the clone as the sweep solves it with constr under test
SweepTest(m, constr, cache) == ResetValues(Deactivate(m, {constr}), cache)

\* constr.activate() of line 275 forgotten
SweepKeepOnlyGuards(m, constr, outcome) ==
    IF outcome = "error" THEN
        [m EXCEPT !.con = [c \in DOMAIN m.con |->
            IF c = constr THEN [m.con[c] EXCEPT !.active = TRUE] ELSE m.con[c]]]
    ELSE m

\* lines 271-278: the clone after the test of constr: reactivated after an
\* evaluation failure or an optimal termination, left deactivated otherwise
SweepKeep(m, constr, outcome) ==
    IF outcome = "error" \/ check_optimal_termination(outcome)
    THEN Activate(m, {constr}) ELSE m

\* every solve that is not optimal makes a guard
GuardsAfterAnyFailure(g, constr, outcome) ==
    IF outcome # "optimal" THEN Append(g, constr) ELSE g

\* line 273
GuardsAfter(g, constr, outcome) ==
    IF outcome = "error" THEN Append(g, constr) ELSE g

\* the test of line 274 negated
DeletionFilterAfterInverted(d, constr, outcome) ==
    IF outcome = "nonoptimal" THEN Append(d, constr) ELSE d

\* line 276
DeletionFilterAfter(d, constr, outcome) ==
    IF outcome # "error" /\ check_optimal_termination(outcome)
    THEN Append(d, constr) ELSE d

\* lines 260-278: one iteration of the deletion sweep
SweepStep ==
    /\ pc = "sweep"
    /\ idx <= Len(elastic_filter)
    /\ LET constr == elastic_filter[idx]
           test == SweepTest(clone, constr, _modified_model_value_cache)
       IN  \E outcome \in SolveOutcomes(test),
              vals \in [FreeVars(test) -> Values] :
              /\ mods' = [mods EXCEPT ![ModifiedModel] =
                     SweepKeep(AfterSolve(test, outcome, vals, <<>>),
                               constr, outcome)]
              /\ guards' = GuardsAfter(guards, constr, outcome)
              /\ deletion_filter' =
                     DeletionFilterAfter(deletion_filter, constr, outcome)
    /\ idx' = idx + 1
    /\ hist' = [hist EXCEPT !.sweepSolves = @ + 1,
                            !.tested = Append(@, elastic_filter[idx])]
    /\ UNCHANGED <<pc, _value_cache, _modified_model_value_cache,
                   _modified_model_var_to_original_model_var, phase, msg,
                   relaxed, printed, fixed_slacks, elastic_filter, nl_writer,
                   exc, solverKind, oracle>>

\* lines 280-284: the report of the MIS and of the guards
SweepEnd ==
    /\ pc = "sweep"
    /\ idx > Len(elastic_filter)
    /\ msg' = msg \cup {"computed_mis"}
    /\ pc' = "finish"
    /\ UNCHANGED <<mods, _value_cache, _modified_model_value_cache,
                   _modified_model_var_to_original_model_var, phase, relaxed,
                   printed, fixed_slacks, elastic_filter, deletion_filter,
                   guards, idx, nl_writer, exc, solverKind, oracle, hist>>

\* lines 286-288: restore the default nl writer and print msg
Finish ==
    /\ pc = "finish"
    /\ nl_writer' = "default"
    /\ printed' = printed \cup {"msg"}
    /\ pc' = "done"
    /\ UNCHANGED <<mods, _value_cache, _modified_model_value_cache,
                   _modified_model_var_to_original_model_var, phase, msg,
                   relaxed, fixed_slacks, elastic_filter, deletion_filter,
                   guards, idx, exc, solverKind, oracle, hist>>

Next ==
    \/ CloneAndCache
    \/ ApplyVariableBounds
    \/ Elasticize
    \/ PhaseSolve
    \/ Scan
    \/ LoopSolve
    \/ UnfixInequalities
    \/ UnfixAll
    \/ CheckFilter
    \/ SolveModel
    \/ DeletionSetup
    \/ ConfirmSolve
    \/ SweepStep
    \/ SweepEnd
    \/ Finish

\* the solver is a black box: any outcome at every call
Spec == Init /\ [][Next]_vars

\* the solver is a function of the active constraints of the restricted clone
SpecFunction == InitFunction /\ [][Next]_vars

\* the caller's models with x at 0 and without a domain restriction: the
\* value at the call has no part in which step the routine takes next, and
\* a domain restriction acts as one more lower bound
InitTerminating ==
    InitWith({m \in InputModels :
                 m.var["x"].value = 0 /\ m.var["x"].domain = "Reals"},
             "blackbox")

\* every solver call returns or raises, so the routine takes its next step
\* whenever it has one
SpecTerminating == InitTerminating /\ [][Next]_vars /\ WF_vars(Next)

\* the routine up to the bound conversion of line 124, on any variables
InitTransform == InitWith(TransformInputModels, "blackbox")

NextTransform ==
    \/ CloneAndCache
    \/ ApplyVariableBounds

SpecTransform == InitTransform /\ [][NextTransform]_vars

-----------------------------------------------------------------------------
(* Properties of compute_infeasibility_explanation *)

Terminated == pc \in {"done", "raised"}

ReportsFeasible == "feasible_solution_found" \in printed

ReportsMIS == "computed_mis" \in msg

ReportsNoMIS == "could_not_determine" \in msg

\* the constraints the report lists: the MIS and the guards
Reported == Range(deletion_filter) \cup Range(guards)

\* the members of elastic_filter the sweep left deactivated
Dropped == Range(elastic_filter) \ Reported

\* position of constraint c in elastic_filter
FilterPos(c) == CHOOSE i \in 1 .. Len(elastic_filter) : elastic_filter[i] = c

\* no member tested after c was left deactivated
NoneDroppedAfter(c) ==
    \A j \in 1 .. Len(elastic_filter) :
        j > FilterPos(c) => elastic_filter[j] \in Reported

\* deactivating more constraints never turns an optimal termination into
\* another outcome
Monotone(o) ==
    \A S \in DOMAIN o, T \in DOMAIN o :
        (S \subseteq T /\ o[T] = "optimal") => o[S] = "optimal"

\* C1: the bound conversion, the elasticization and every fix, unfix,
\* activate and deactivate work on the clone; bounds, domains, fixed flags,
\* constraints, objectives and components of the original model are at every
\* point of the routine what they were at the call.
C1_OriginalStructureUnchanged ==
    Structure(mods["model"]) = Structure(hist.input)

\* a run that went through the conversion, the elasticization, the three
\* phases and the deletion sweep, and reported an MIS
C1_Witness ==
    /\ pc = "done"
    /\ ReportsMIS
    /\ Len(deletion_filter) > 0
    /\ "_variable_bounds" \in clone.blocks
    /\ Structure(clone) # Structure(hist.input)
    /\ ActiveCons(clone) # ActiveCons(hist.input)

\* C2: the values of the clone are written into the original model at most
\* once, and only in runs whose first solve (line 193) terminated optimal.
C2_WriteBackOnlyAfterOptimalFirstSolve ==
    /\ hist.writeBacks <= 1
    /\ hist.writeBacks > 0 => hist.first = "optimal"

\* C3: when the routine ends and no solve of the original model terminated
\* optimal, every variable of the original model has its cached value.
C3_ValuesKeptWithoutFeasibleSolution ==
    (Terminated /\ hist.orig # "optimal") =>
        ValuesOf(mods["model"]) = _value_cache

\* C4: when the first solve terminates optimal and the first pass finds no
\* slack above the tolerance, the routine returns normally, has reported a
\* feasible solution, records no relaxed constraint and runs no step of the
\* deletion filter.
C4_FeasibilityShortCircuit ==
    hist.emptyFirstScan =>
        /\ pc # "raised"
        /\ ~hist.deletion
        /\ relaxed = {}
        /\ pc = "done" => ReportsFeasible

\* C5: a run that returns reports exactly one of a feasible solution, an MIS
\* with at least one member, or that the MIS could not be determined.
C5_ExactlyOneReport ==
    pc = "done" =>
        /\ Cardinality({r \in {"feasible", "mis", "nomis"} :
              \/ r = "feasible" /\ ReportsFeasible
              \/ r = "mis" /\ ReportsMIS
              \/ r = "nomis" /\ ReportsNoMIS}) = 1
        /\ ReportsMIS => Len(deletion_filter) > 0

\* C6 as stated: with a solver that is any function of the active set, every
\* member c of the reported MIS is such that the clone with c alone
\* deactivated, the other MIS members and the guards active, solves optimal.
C6_MinimalForAnyFunction ==
    ReportsMIS =>
        \A c \in Range(deletion_filter) : oracle[Reported \ {c}] = "optimal"

\* C6 amended: the same, for a solver that is a function of the active set
\* under which deactivating further constraints keeps an optimal termination
\* optimal.
C6_MinimalForMonotoneSolver ==
    (ReportsMIS /\ Monotone(oracle)) =>
        \A c \in Range(deletion_filter) : oracle[Reported \ {c}] = "optimal"

\* a monotone solver, a member kept in the MIS and a member tested after it
\* that the sweep dropped
C6_Witness ==
    /\ pc = "done"
    /\ ReportsMIS
    /\ Monotone(oracle)
    /\ \E c \in Range(deletion_filter) : ~NoneDroppedAfter(c)

\* C7: when an MIS is reported, the restricted clone as the sweep leaves it,
\* the reported MIS members and guards active and nothing else, does not
\* solve optimal.
C7_ReportedSystemInfeasible ==
    ReportsMIS =>
        /\ ActiveCons(clone) = Reported
        /\ oracle[Reported] # "optimal"

\* an MIS of two members was reported
C7_Witness ==
    /\ pc = "done"
    /\ ReportsMIS
    /\ Len(deletion_filter) = 2

\* C8 as stated: for every reported guard g, the final restricted clone with
\* g alone deactivated raises an evaluation failure.
C8_GuardFailsInFinalClone ==
    ReportsMIS =>
        \A g \in Range(guards) : oracle[Reported \ {g}] = "error"

\* C8 amended: the same for every guard g after which the sweep left no
\* member deactivated.
C8_GuardFailsWhenNothingDroppedLater ==
    ReportsMIS =>
        \A g \in Range(guards) :
            NoneDroppedAfter(g) => oracle[Reported \ {g}] = "error"

\* a guard followed in the sweep by a member that was kept
C8_Witness ==
    /\ pc = "done"
    /\ ReportsMIS
    /\ \E g \in Range(guards) :
          /\ FilterPos(g) < Len(elastic_filter)
          /\ NoneDroppedAfter(g)

\* C9: no step of the routine removes a constraint from elastic_filter; its
\* size never decreases.
C9_ElasticFilterGrows ==
    [][/\ Range(elastic_filter) \subseteq Range(elastic_filter')
       /\ Len(elastic_filter') >= Len(elastic_filter)]_vars

\* the filter grew in two different passes of the constraint loop
C9_Witness ==
    /\ Len(elastic_filter) >= 2
    /\ hist.scans >= 2
    /\ phase = 3
    /\ pc = "resolve"

\* C10: no evaluation failure of a diagnostic solve of the clone leaves the
\* routine as an exception.
C10_EvaluationFailureRecovered ==
    exc \notin {"eval_clone", "attribute_error"}

\* C11: once the nl writer was switched to nl_v1 (line 235), every exit of
\* the routine, by return or by a raised error, leaves the default writer
\* registered as "nl".
C11_WriterRestoredOnEveryExit ==
    (Terminated /\ hist.deletion) => nl_writer = "default"

\* the variables of block m that are fixed or have neither a lower nor an
\* upper bound, the bound of the domain included
Unbounded(m) ==
    {v \in DOMAIN m.var :
        m.var[v].fixed
        \/ (m.var[v].lb = None /\ m.var[v].ub = None
            /\ m.var[v].domain = "Reals")}

AfterTransform == pc = "slacks"

\* C12 as stated: on a model in which no free variable has a finite bound
\* the conversion adds no constraint and no other component and changes no
\* bound and no domain.
C12_StructurallyUnchanged ==
    (AfterTransform /\ Unbounded(hist.input) = DOMAIN hist.input.var)
        => Structure(clone) = Structure(hist.input)

\* C12: on a model in which no free variable has a finite bound the
\* conversion adds no constraint and changes no bound and no domain; the one
\* component it adds is the empty block _variable_bounds.
C12_UnchangedButForEmptyBlock ==
    (AfterTransform /\ Unbounded(hist.input) = DOMAIN hist.input.var)
        => /\ clone.con = hist.input.con
           /\ clone.conOrder = hist.input.conOrder
           /\ clone.obj = hist.input.obj
           /\ DOMAIN clone.slack = {}
           /\ \A v \in DOMAIN hist.input.var :
                  /\ clone.var[v].lb = hist.input.var[v].lb
                  /\ clone.var[v].ub = hist.input.var[v].ub
                  /\ clone.var[v].domain = hist.input.var[v].domain
                  /\ clone.var[v].fixed = hist.input.var[v].fixed
           /\ clone.blocks = hist.input.blocks \cup {"_variable_bounds"}
           /\ VariableBoundsCons(clone) = {}

\* the conversion ran on a model whose bounded variables are all fixed
C12_Witness ==
    /\ AfterTransform
    /\ Unbounded(hist.input) = DOMAIN hist.input.var
    /\ \E v \in DOMAIN hist.input.var :
          hist.input.var[v].fixed /\ hist.input.var[v].lb # None
    /\ \E v \in DOMAIN hist.input.var : ~hist.input.var[v].fixed

\* C13: when the confirm solve terminates optimal the routine reports that
\* the Minimal Intractable System could not be determined, runs no iteration
\* of the deletion sweep and reports neither an MIS nor guards.
C13_OptimalConfirmReportsNoMIS ==
    hist.confirm = "optimal"
        => /\ pc \in {"finish", "done"}
           /\ ReportsNoMIS
           /\ ~ReportsMIS
           /\ hist.sweepSolves = 0
           /\ hist.tested = <<>>
           /\ deletion_filter = <<>> /\ guards = <<>>

C13_Witness ==
    /\ pc = "done"
    /\ hist.confirm = "optimal"
    /\ Len(elastic_filter) > 0
    /\ "msg" \in printed

\* the slacks of the constraints the caller's model does not have: the ones
\* synthesized from the bounds
SlacksOfSynthesized ==
    {s \in DOMAIN clone.slack :
        _get_constraint(clone, s) \notin DOMAIN hist.input.con}

AtFirstSolve == pc = "solve" /\ phase = 1

\* C14: at the first solve of the elasticized clone the free slacks are the
\* slacks of the synthesized bound constraints, and every other slack is
\* fixed with value zero.
C14_OnlyBoundSlacksFreeAtFirstSolve ==
    AtFirstSolve
        => /\ FreeSlacks(clone) = SlacksOfSynthesized
           /\ \A s \in DOMAIN clone.slack \ SlacksOfSynthesized :
                  clone.slack[s].fixed /\ clone.slack[s].value = 0

\* a first solve with slacks of bound constraints and slacks of constraints
\* of the caller
C14_Witness ==
    /\ AtFirstSolve
    /\ SlacksOfSynthesized # {}
    /\ DOMAIN clone.slack \ SlacksOfSynthesized # {}

\* the slacks of block m that elasticize constraint c
PairOf(m, c) == {PlusName(c), MinusName(c)} \cap DOMAIN m.slack

\* a pass of the generator after which the loop solves again
ScanThenResolve == pc = "scan" /\ pc' = "resolve"

\* C15: in every scan of the constraint loop, for every slack above the
\* tolerance the owning constraint is written to the report and added to
\* elastic_filter, and both slacks of the constraint, plus and minus, are
\* fixed at zero when the loop solves again.
C15_ScanFixesBothSlacksOfPair ==
    [][ScanThenResolve =>
          \A s \in DOMAIN clone.slack :
              clone.slack[s].value > tolerance =>
                  LET c == _get_constraint(clone, s)
                  IN  /\ c \in relaxed'
                      /\ c \in Range(elastic_filter')
                      /\ \A t \in PairOf(clone, c) :
                             /\ clone'.slack[t].fixed
                             /\ clone'.slack[t].value = 0]_vars

\* C16: a round of the constraint loop in which no slack is above the
\* tolerance stops the loop and the routine goes on with what it has
\* gathered; the round does not make the routine leave by an exception.
C16_QuietRoundDoesNotAbort ==
    hist.emptyScan => ~(pc = "raised" /\ exc = "feasible")

\* the clone is about to be solved again: by the loop (line 186), by the
\* inequality phase (line 206), by the full phase (line 214) or by the
\* confirm solve (line 251)
BeforeResolve ==
    \/ pc = "resolve"
    \/ pc = "solve" /\ phase \in {2, 3}
    \/ pc = "confirm"

\* C17: before every solve of the clone after the first one, every variable
\* of the clone that has a counterpart in the original model holds the
\* value cached at the start.
C17_ValuesResetBeforeEveryResolve ==
    BeforeResolve =>
        \A v \in DOMAIN _modified_model_value_cache :
            clone.var[v].value = _modified_model_value_cache[v]

\* C18: the sweep tests the members of elastic_filter once each, in the
\* order of the filter; the MIS list and the guard list are disjoint and
\* within the filter; a tested member that is in neither list is
\* deactivated from its test to the end of the routine; when the sweep
\* ends the active constraints of the clone are the members of the two lists.
C18_SweepLeavesMISAndGuardsActive ==
    /\ pc \in {"sweep", "finish", "done"} =>
          /\ hist.tested = SubSeq(elastic_filter, 1, Len(hist.tested))
          /\ Range(deletion_filter) \cap Range(guards) = {}
          /\ Range(deletion_filter) \cup Range(guards) \subseteq Range(hist.tested)
          /\ Len(deletion_filter) + Len(guards) <= Len(hist.tested)
          /\ \A c \in Range(hist.tested) :
                 clone.con[c].active
                     <=> c \in Range(deletion_filter) \cup Range(guards)
    /\ ReportsMIS =>
          /\ hist.tested = elastic_filter
          /\ hist.sweepSolves = Len(elastic_filter)
          /\ ActiveCons(clone) = Range(deletion_filter) \cup Range(guards)

\* a finished sweep that made an MIS member, a guard and a dropped member
C18_Witness ==
    /\ pc = "done"
    /\ ReportsMIS
    /\ deletion_filter # <<>>
    /\ guards # <<>>
    /\ Dropped # {}

\* C19: a slack in fixed_slacks is fixed with value zero in every state; at
\* the solve of the inequality phase the free slacks are the slacks of the
\* non-equality constraints outside fixed_slacks, at the solve of the full
\* phase the slacks outside fixed_slacks.
C19_LoopFixedSlacksStayFixed ==
    /\ \A s \in fixed_slacks :
          clone.slack[s].fixed /\ clone.slack[s].value = 0
    /\ (pc = "solve" /\ phase = 2) =>
          \A s \in DOMAIN clone.slack :
              ~clone.slack[s].fixed
                  <=> (s \notin fixed_slacks
                       /\ ~clone.con[_get_constraint(clone, s)].equality)
    /\ (pc = "solve" /\ phase = 3) =>
          \A s \in DOMAIN clone.slack :
              ~clone.slack[s].fixed <=> s \notin fixed_slacks

\* the full phase is about to solve with a slack the loop fixed beside
\* slacks it just unfixed
C19_Witness ==
    /\ pc = "solve" /\ phase = 3
    /\ fixed_slacks # {}
    /\ \E s \in fixed_slacks :
          ~clone.con[_get_constraint(clone, s)].equality
    /\ FreeSlacks(clone) # {}

\* C20: for a fixed variable the conversion makes no bound constraint and
\* leaves lower bound, upper bound and domain as they were.
C20_FixedVariablesUntouched ==
    AfterTransform =>
        \A v \in DOMAIN hist.input.var :
            hist.input.var[v].fixed =>
                /\ clone.var[v] = hist.input.var[v]
                /\ LbName(v) \notin DOMAIN clone.con
                /\ UbName(v) \notin DOMAIN clone.con

\* the conversion ran on a fixed variable with bounds and a domain beside a
\* free variable whose bounds it converted
C20_Witness ==
    /\ AfterTransform
    /\ \E v \in DOMAIN hist.input.var :
          /\ hist.input.var[v].fixed
          /\ hist.input.var[v].lb # None /\ hist.input.var[v].ub # None
          /\ hist.input.var[v].domain = "NonNegativeReals"
    /\ VariableBoundsCons(clone) # {}

\* the lower bound the conversion reads for variable record v (line 38): the
\* declared one, or 0 from the domain when that is tighter or the only one
FiniteLb(v) ==
    IF v.domain = "NonNegativeReals" /\ (v.lb = None \/ v.lb = {-1})
    THEN {0} ELSE v.lb

\* the constraints the conversion added to the clone
Synthesized == DOMAIN clone.con \ DOMAIN hist.input.con

\* C21: for every free variable with a finite bound the conversion adds to
\* the bounds block one constraint per finite bound, lb_for_<name> as
\* lb <= v and ub_for_<name> as v <= ub, and leaves the variable without
\* lower bound, without upper bound and with the domain Reals; a free
\* variable without a finite bound gets no constraint; the block holds no
\* other constraint.
C21_OneConstraintPerFiniteBound ==
    AfterTransform =>
        /\ \A v \in DOMAIN hist.input.var :
              LET old == hist.input.var[v]
                  lb == FiniteLb(old)
                  ub == old.ub
              IN  ~old.fixed =>
                    /\ LbName(v) \in Synthesized <=> lb # None
                    /\ UbName(v) \in Synthesized <=> ub # None
                    /\ lb # None =>
                          clone.con[LbName(v)] = MkCon(lb, None, FALSE, TRUE)
                    /\ ub # None =>
                          clone.con[UbName(v)] = MkCon(None, ub, FALSE, TRUE)
                    /\ (lb # None \/ ub # None) =>
                          /\ clone.var[v].lb = None
                          /\ clone.var[v].ub = None
                          /\ clone.var[v].domain = "Reals"
                    /\ (lb = None /\ ub = None) => clone.var[v] = old
        /\ \A c \in Synthesized :
              \E v \in DOMAIN hist.input.var :
                  ~hist.input.var[v].fixed /\ c \in {LbName(v), UbName(v)}
        /\ Len(clone.conOrder) = Cardinality(DOMAIN clone.con)
        /\ Range(clone.conOrder) = DOMAIN clone.con

\* the conversion ran on a free variable with both bounds and a domain
\* tighter than its lower bound, beside a free variable without any bound
C21_Witness ==
    /\ AfterTransform
    /\ \E v \in DOMAIN hist.input.var :
          /\ ~hist.input.var[v].fixed
          /\ hist.input.var[v].lb = {-1} /\ hist.input.var[v].ub # None
          /\ hist.input.var[v].domain = "NonNegativeReals"
          /\ clone.con[LbName(v)].lower = {0}
    /\ \E v \in DOMAIN hist.input.var :
          /\ ~hist.input.var[v].fixed
          /\ FiniteLb(hist.input.var[v]) = None /\ hist.input.var[v].ub = None

\* the constraints AddSlackVariables gave a slack to
Elasticized == {_get_constraint(clone, s) : s \in DOMAIN clone.slack}

\* the passes of the generator that were followed by a re-solve
CompletedIterations ==
    IF exc = "feasible" THEN hist.scans - 1 ELSE hist.scans

\* C22: the routine terminates whatever the solver answers; every pass of
\* the constraint loop that is followed by a re-solve added a constraint to
\* elastic_filter, so there are at most as many of them as there are
\* elasticized constraints; the sweep solves once per member of
\* elastic_filter.
C22_Terminates ==
    /\ <>Terminated
    /\ [](/\ CompletedIterations <= Len(elastic_filter)
          /\ Len(elastic_filter) <= Cardinality(Elasticized)
          /\ Range(elastic_filter) \subseteq Elasticized
          /\ hist.sweepSolves <= Len(elastic_filter)
          /\ ReportsMIS => hist.sweepSolves = Len(elastic_filter))

\* a finished run with iterations of the loop in more than one phase and a
\* sweep over more than one member
C22_Witness ==
    /\ pc = "done"
    /\ ReportsMIS
    /\ CompletedIterations >= 2
    /\ hist.sweepSolves >= 2

AtConfirmSolve == pc = "confirm"

\* C23: when the confirm solve is about to run every slack is fixed with
\* value zero, no objective of the clone is active and the active
\* constraints of the clone are the members of elastic_filter; the step
\* that restricts the clone deactivates the other constraints and removes
\* none.
C23_RestrictedCloneAtConfirmSolve ==
    /\ [](AtConfirmSolve =>
            /\ \A s \in DOMAIN clone.slack :
                   clone.slack[s].fixed /\ clone.slack[s].value = 0
            /\ \A o \in DOMAIN clone.obj : ~clone.obj[o]
            /\ {c \in DOMAIN clone.con : clone.con[c].active}
                   = Range(elastic_filter))
    /\ [][AtConfirmSolve' =>
            /\ DOMAIN clone'.con = DOMAIN clone.con
            /\ DOMAIN clone'.slack = DOMAIN clone.slack
            /\ DOMAIN clone'.obj = DOMAIN clone.obj
            /\ \A c \in DOMAIN clone.con :
                   /\ clone'.con[c].lower = clone.con[c].lower
                   /\ clone'.con[c].upper = clone.con[c].upper
                   /\ clone'.con[c].equality = clone.con[c].equality]_vars

\* the confirm solve is about to run on a filter that left out a constraint
\* the caller's model has active, after the loop had fixed slacks
C23_Witness ==
    /\ AtConfirmSolve
    /\ elastic_filter # <<>>
    /\ fixed_slacks # {}
    /\ \E c \in DOMAIN clone.con \ Range(elastic_filter) :
          c \in DOMAIN hist.input.con /\ hist.input.con[c].active

====
